---- MODULE Spec2Model ----
(***************************************************************************)
(* Model of the ARL-ET configuration module (src/config.py) and of the     *)
(* Firestore singleton client (src/firebase_client.py).                    *)
(*                                                                         *)
(* Strings are sequences of one-character strings, so that prefixing,      *)
(* float() and int() are computed on the characters.                       *)
(***************************************************************************)
EXTENDS Integers, Sequences, FiniteSets, TLC

VARIABLES
    \* ---- firebase_client.py ----
    instance,     \* FirebaseClient._instance: 0 is None, else index into objs
    lock,         \* FirebaseClient._lock: 0 is free, else the holding thread
    objs,         \* the FirebaseClient objects allocated by super().__new__
    apps,         \* firebase_admin._apps is non-empty
    initCalls,    \* number of calls of _initialize so far
    connections,  \* number of firestore.client() handles obtained
    pc,           \* per thread: the line it is about to execute
    ret,          \* per thread: reference returned by FirebaseClient(), 0 none
    inits,        \* per thread: _initialize calls made by its constructor call
    w,            \* per thread: the state of its current write_state call
    self,         \* per thread: the object its _initialize call runs on
    errorLog,     \* per thread: logging.error lines emitted by _initialize
    \* ---- config.py ----
    env,          \* os.environ as seen by os.getenv
    pathExists,   \* os.path.exists(config.firebase.credentials_path)
    cfgpc,        \* progress of importing config.py and validating
    cls,          \* class attributes (dataclass defaults) computed at import
    validation,   \* mapping returned by validate_all
    cfgLog        \* fields named by logging.error during validate_all

clientVars == <<instance, lock, objs, apps, initCalls, connections, pc, ret,
                inits, w, self, errorLog>>
configVars == <<env, pathExists, cfgpc, cls, validation, cfgLog>>
vars == <<clientVars, configVars>>

(***************************************************************************)
(* Bounds                                                                  *)
(***************************************************************************)
NumThreads == 2
Threads == 1..NumThreads

FracDigits == 3

(***************************************************************************)
(* Strings                                                                 *)
(***************************************************************************)
Digit == {"0", "1", "2", "3", "4", "5", "6", "7", "8", "9"}

DigitVal(c) ==
    CASE c = "0" -> 0 [] c = "1" -> 1 [] c = "2" -> 2 [] c = "3" -> 3
      [] c = "4" -> 4 [] c = "5" -> 5 [] c = "6" -> 6 [] c = "7" -> 7
      [] c = "8" -> 8 [] c = "9" -> 9

AllDigits(s) == \A i \in 1..Len(s) : s[i] \in Digit

RECURSIVE DecValue(_)
DecValue(s) ==
    IF s = <<>> THEN 0
    ELSE DecValue(SubSeq(s, 1, Len(s) - 1)) * 10 + DigitVal(s[Len(s)])

HasSign(s) == s # <<>> /\ s[1] \in {"+", "-"}
Unsigned(s) == IF HasSign(s) THEN Tail(s) ELSE s
SignOf(s) == IF HasSign(s) /\ s[1] = "-" THEN 0 - 1 ELSE 1

(***************************************************************************)
(* float() and int() of a string.  Floats are exact decimals counted in    *)
(* units of 10^-FracDigits, or NaN.  The literals covered are              *)
(* [sign] digits [. digits], [sign] . digits and [sign] nan; every input   *)
(* drawn below is over this alphabet or holds a letter no literal has.     *)
(***************************************************************************)
One == 10 ^ FracDigits

ValueError == [ok |-> FALSE, nan |-> FALSE, num |-> 0]
NaN == [ok |-> TRUE, nan |-> TRUE, num |-> 0]
Num(n) == [ok |-> TRUE, nan |-> FALSE, num |-> n]

FracValue(fp) == DecValue(fp) * (10 ^ (FracDigits - Len(fp)))

PyFloat(s) ==
    LET body == Unsigned(s)
        dots == {i \in 1..Len(body) : body[i] = "."}
    IN  IF body = <<"n", "a", "n">> THEN NaN
        ELSE IF Cardinality(dots) > 1 THEN ValueError
        ELSE LET d  == IF dots = {} THEN Len(body) + 1
                       ELSE CHOOSE i \in dots : TRUE
                 ip == SubSeq(body, 1, d - 1)
                 fp == SubSeq(body, d + 1, Len(body))
             IN  IF ~AllDigits(ip) \/ ~AllDigits(fp)
                    \/ (ip = <<>> /\ fp = <<>>) \/ Len(fp) > FracDigits
                 THEN ValueError
                 ELSE Num(SignOf(s) * (DecValue(ip) * One + FracValue(fp)))

PyInt(s) ==
    LET body == Unsigned(s)
    IN  IF body = <<>> \/ ~AllDigits(body) THEN ValueError
        ELSE Num(SignOf(s) * DecValue(body))

\* Python comparisons of floats: every comparison with NaN is False.
FLt(a, b) == ~a.nan /\ ~b.nan /\ a.num < b.num
FLe(a, b) == ~a.nan /\ ~b.nan /\ a.num <= b.num

(***************************************************************************)
(* config.py: the environment                                              *)
(***************************************************************************)
Unset == [isSet |-> FALSE, val |-> <<>>]
SetTo(s) == [isSet |-> TRUE, val |-> s]

Getenv(e, name, default) == IF e[name].isSet THEN e[name].val ELSE default

EnvNames == {"FIREBASE_PROJECT_ID", "FIREBASE_COLLECTION_PREFIX",
             "MAX_POSITION_SIZE", "RISK_PER_TRADE", "RL_LEARNING_RATE",
             "RL_DISCOUNT_FACTOR", "RL_EXPLORATION_RATE", "RL_BATCH_SIZE",
             "RL_MEMORY_SIZE"}

DefaultEnv == [n \in EnvNames |-> Unset]

S_0 == <<"0">>
S_1 == <<"1">>
S_1p5 == <<"1", ".", "5">>
S_m1 == <<"-", "1">>
S_nan == <<"n", "a", "n">>
S_x == <<"x">>

\* The values each variable is given; Unset selects the default of the code.
ConfigEnvs ==
    [FIREBASE_PROJECT_ID        : {Unset, SetTo(<<>>)},
     FIREBASE_COLLECTION_PREFIX : {Unset},
     MAX_POSITION_SIZE          : {Unset, SetTo(S_0), SetTo(S_m1), SetTo(S_1p5),
                                   SetTo(S_nan), SetTo(S_x)},
     RISK_PER_TRADE             : {Unset, SetTo(S_0), SetTo(S_1), SetTo(S_1p5),
                                   SetTo(S_nan), SetTo(S_x)},
     RL_LEARNING_RATE           : {Unset, SetTo(S_0), SetTo(S_1), SetTo(S_1p5),
                                   SetTo(S_m1), SetTo(S_nan)},
     RL_DISCOUNT_FACTOR         : {Unset, SetTo(S_x)},
     RL_EXPLORATION_RATE        : {Unset, SetTo(S_0), SetTo(S_1), SetTo(S_1p5),
                                   SetTo(S_m1), SetTo(S_nan)},
     RL_BATCH_SIZE              : {Unset, SetTo(S_1p5)},
     RL_MEMORY_SIZE             : {Unset, SetTo(<<"-", "5">>)}]

(***************************************************************************)
(* config.py: the dataclass defaults, computed when the module is imported *)
(***************************************************************************)
NoClasses ==
    [project_id |-> <<>>, collection_prefix |-> <<>>,
     max_position_size |-> Num(0), risk_per_trade |-> Num(0),
     learning_rate |-> Num(0), discount_factor |-> Num(0),
     exploration_rate |-> Num(0), batch_size |-> Num(0), memory_size |-> Num(0)]

FirebaseConfig(e) ==
    [project_id |-> Getenv(e, "FIREBASE_PROJECT_ID",
        <<"a", "r", "l", "-", "e", "t", "-", "p", "r", "o", "d", "u", "c", "t", "i", "o", "n">>),
     collection_prefix |-> Getenv(e, "FIREBASE_COLLECTION_PREFIX",
        <<"A", "R", "L", "E", "T", "_">>)]

TradingConfig(e) ==
    [max_position_size |-> PyFloat(Getenv(e, "MAX_POSITION_SIZE", <<"0", ".", "1">>)),
     risk_per_trade    |-> PyFloat(Getenv(e, "RISK_PER_TRADE", <<"0", ".", "0", "2">>))]

RLConfig(e) ==
    [learning_rate    |-> PyFloat(Getenv(e, "RL_LEARNING_RATE", <<"0", ".", "0", "0", "1">>)),
     discount_factor  |-> PyFloat(Getenv(e, "RL_DISCOUNT_FACTOR", <<"0", ".", "9", "5">>)),
     exploration_rate |-> PyFloat(Getenv(e, "RL_EXPLORATION_RATE", <<"0", ".", "1">>)),
     batch_size       |-> PyInt(Getenv(e, "RL_BATCH_SIZE", <<"3", "2">>)),
     memory_size      |-> PyInt(Getenv(e, "RL_MEMORY_SIZE", <<"1", "0", "0", "0", "0">>))]

\* A class body raises ValueError when one of its coercions does.
Raises(r) == \E f \in DOMAIN r : ~r[f].ok

Merge(c, r) == [f \in DOMAIN c |-> IF f \in DOMAIN r THEN r[f] ELSE c[f]]

ImportFirebaseConfig ==
    /\ cfgpc = "import13"
    /\ cls' = Merge(cls, FirebaseConfig(env))
    /\ cfgpc' = "import30"
    /\ UNCHANGED <<env, pathExists, validation, cfgLog, clientVars>>

ImportTradingConfig ==
    /\ cfgpc = "import30"
    /\ IF Raises(TradingConfig(env))
       THEN cfgpc' = "raised" /\ UNCHANGED cls
       ELSE cfgpc' = "import39" /\ cls' = Merge(cls, TradingConfig(env))
    /\ UNCHANGED <<env, pathExists, validation, cfgLog, clientVars>>

ImportRLConfig ==
    /\ cfgpc = "import39"
    /\ IF Raises(RLConfig(env))
       THEN cfgpc' = "raised" /\ UNCHANGED cls
       ELSE cfgpc' = "import92" /\ cls' = Merge(cls, RLConfig(env))
    /\ UNCHANGED <<env, pathExists, validation, cfgLog, clientVars>>

\* config = ARLETConfig(): each group is an instance holding the class defaults.
Construct ==
    /\ cfgpc = "import92"
    /\ cfgpc' = "ready"
    /\ UNCHANGED <<env, pathExists, cls, validation, cfgLog, clientVars>>

(***************************************************************************)
(* config.py: validation.  Each validator yields its result and the fields *)
(* its logging.error calls name, in order.                                 *)
(***************************************************************************)
Verdict(ok, log) == [ok |-> ok, log |-> log]

FirebaseValidate(c, exists) ==
    IF c.project_id = <<>> THEN Verdict(FALSE, <<"FIREBASE_PROJECT_ID">>)
    ELSE IF ~exists THEN Verdict(FALSE, <<"FIREBASE_CREDENTIALS">>)
    ELSE Verdict(TRUE, <<>>)

ValidateTradingLogAll(c) ==
    LET a == FLe(c.max_position_size, Num(0))
        b == ~(FLt(Num(0), c.risk_per_trade) /\ FLe(c.risk_per_trade, Num(One)))
    IN  Verdict(~a /\ ~b,
                (IF a THEN <<"MAX_POSITION_SIZE">> ELSE <<>>)
                \o (IF b THEN <<"RISK_PER_TRADE">> ELSE <<>>))

ValidateTrading(c) ==
    IF FLe(c.max_position_size, Num(0))
    THEN Verdict(FALSE, <<"MAX_POSITION_SIZE">>)
    ELSE IF ~(FLt(Num(0), c.risk_per_trade) /\ FLe(c.risk_per_trade, Num(One)))
    THEN Verdict(FALSE, <<"RISK_PER_TRADE">>)
    ELSE Verdict(TRUE, <<>>)

ValidateRl(c) ==
    IF ~(FLt(Num(0), c.learning_rate) /\ FLe(c.learning_rate, Num(One)))
    THEN Verdict(FALSE, <<"RL_LEARNING_RATE">>)
    ELSE IF ~(FLe(Num(0), c.exploration_rate) /\ FLe(c.exploration_rate, Num(One)))
    THEN Verdict(FALSE, <<"RL_EXPLORATION_RATE">>)
    ELSE Verdict(TRUE, <<>>)

NoValidation == [firebase |-> FALSE, trading |-> FALSE, rl |-> FALSE]

ValidateAll ==
    /\ cfgpc = "ready"
    /\ LET f == FirebaseValidate(cls, pathExists)
           t == ValidateTrading(cls)
           r == ValidateRl(cls)
       IN  /\ validation' = [firebase |-> f.ok, trading |-> t.ok, rl |-> r.ok]
           /\ cfgLog' = f.log \o t.log \o r.log
    /\ cfgpc' = "validated"
    /\ UNCHANGED <<env, pathExists, cls, clientVars>>

(***************************************************************************)
(* firebase_client.py: the singleton constructor                           *)
(***************************************************************************)
\* An object fresh from super().__new__(cls): no attribute is set yet.
\* initialized records that _initialize has returned normally on it.
NewObject == [db |-> FALSE, has_prefix |-> FALSE, collection_prefix |-> <<>>,
              initialized |-> FALSE]

\* `cls._instance is None`, tested again once the lock is held (line 26)
NoRecheck(inst) == TRUE
IsNoneUnderLock(inst) == inst = 0

\* leaving `with cls._lock:`, normally or by an exception: the lock is released
KeepLock(holder) == holder
ExitWith(holder) == 0

New24(t) ==
    /\ pc[t] = "new24"
    /\ pc' = [pc EXCEPT ![t] = IF instance = 0 THEN "new25" ELSE "new29"]
    /\ UNCHANGED <<instance, lock, objs, apps, initCalls, connections, ret,
                   inits, w, self, errorLog, configVars>>

New25(t) ==
    /\ pc[t] = "new25"
    /\ lock = 0
    /\ lock' = t
    /\ pc' = [pc EXCEPT ![t] = "new26"]
    /\ UNCHANGED <<instance, objs, apps, initCalls, connections, ret,
                   inits, w, self, errorLog, configVars>>

New26(t) ==
    /\ pc[t] = "new26"
    /\ pc' = [pc EXCEPT ![t] = IF IsNoneUnderLock(instance) THEN "new27" ELSE "exit25"]
    /\ UNCHANGED <<instance, lock, objs, apps, initCalls, connections, ret,
                   inits, w, self, errorLog, configVars>>

New27(t) ==
    /\ pc[t] = "new27"
    /\ objs' = Append(objs, NewObject)
    /\ instance' = Len(objs) + 1
    /\ pc' = [pc EXCEPT ![t] = "new28"]
    /\ UNCHANGED <<lock, apps, initCalls, connections, ret,
                   inits, w, self, errorLog, configVars>>

\* cls._instance._initialize() is entered
New28(t) ==
    /\ pc[t] = "new28"
    /\ self' = [self EXCEPT ![t] = instance]
    /\ inits' = [inits EXCEPT ![t] = @ + 1]
    /\ initCalls' = initCalls + 1
    /\ pc' = [pc EXCEPT ![t] = "init34"]
    /\ UNCHANGED <<instance, lock, objs, apps, connections, ret,
                   w, errorLog, configVars>>

Init34(t) ==
    /\ pc[t] = "init34"
    /\ pc' = [pc EXCEPT ![t] = IF ~apps THEN "init35" ELSE "init40"]
    /\ UNCHANGED <<instance, lock, objs, apps, initCalls, connections, ret,
                   inits, w, self, errorLog, configVars>>

\* credentials.Certificate(...) returns or throws
Init35(t) ==
    /\ pc[t] = "init35"
    /\ \E throws \in BOOLEAN :
         pc' = [pc EXCEPT ![t] = IF throws THEN "init44" ELSE "init36"]
    /\ UNCHANGED <<instance, lock, objs, apps, initCalls, connections, ret,
                   inits, w, self, errorLog, configVars>>

\* firebase_admin.initialize_app(...) registers the app or throws
Init36(t) ==
    /\ pc[t] = "init36"
    /\ \E throws \in BOOLEAN :
         /\ pc' = [pc EXCEPT ![t] = IF throws THEN "init44" ELSE "init40"]
         /\ apps' = IF throws THEN apps ELSE TRUE
    /\ UNCHANGED <<instance, lock, objs, initCalls, connections, ret,
                   inits, w, self, errorLog, configVars>>

\* self.db = firestore.client(), or firestore.client() throws
Init40(t) ==
    /\ pc[t] = "init40"
    /\ \E throws \in BOOLEAN :
         /\ pc' = [pc EXCEPT ![t] = IF throws THEN "init44" ELSE "init41"]
         /\ objs' = IF throws THEN objs
                    ELSE [objs EXCEPT ![self[t]].db = TRUE]
         /\ connections' = IF throws THEN connections ELSE connections + 1
    /\ UNCHANGED <<instance, lock, apps, initCalls, ret,
                   inits, w, self, errorLog, configVars>>

Init41(t) ==
    /\ pc[t] = "init41"
    /\ objs' = [objs EXCEPT ![self[t]].has_prefix = TRUE,
                            ![self[t]].collection_prefix = cls.collection_prefix]
    /\ pc' = [pc EXCEPT ![t] = "init42"]
    /\ UNCHANGED <<instance, lock, apps, initCalls, connections, ret,
                   inits, w, self, errorLog, configVars>>

\* logging.info(...); _initialize returns
Init42(t) ==
    /\ pc[t] = "init42"
    /\ objs' = [objs EXCEPT ![self[t]].initialized = TRUE]
    /\ pc' = [pc EXCEPT ![t] = "exit25"]
    /\ UNCHANGED <<instance, lock, apps, initCalls, connections, ret,
                   inits, w, self, errorLog, configVars>>

\* A handler that calls _initialize again instead of raising.
Init44Retry(t) ==
    /\ pc[t] = "init44"
    /\ errorLog' = [errorLog EXCEPT ![t] = @ + 1]
    /\ IF inits[t] < 2
       THEN /\ inits' = [inits EXCEPT ![t] = @ + 1]
            /\ initCalls' = initCalls + 1
            /\ pc' = [pc EXCEPT ![t] = "init34"]
            /\ lock' = lock
       ELSE /\ lock' = ExitWith(lock)
            /\ pc' = [pc EXCEPT ![t] = "raised"]
            /\ UNCHANGED <<inits, initCalls>>
    /\ UNCHANGED <<instance, objs, apps, connections, ret,
                   w, self, configVars>>

\* except Exception: logging.error(...); raise ConnectionError(...).  The
\* exception leaves _initialize, the with block (releasing the lock) and
\* __new__: the constructor call ends without a value.
Init44(t) ==
    /\ pc[t] = "init44"
    /\ errorLog' = [errorLog EXCEPT ![t] = @ + 1]
    /\ lock' = ExitWith(lock)
    /\ pc' = [pc EXCEPT ![t] = "raised"]
    /\ UNCHANGED <<instance, objs, apps, initCalls, connections, ret,
                   inits, w, self, configVars>>

\* the with block of line 25 is left normally
Exit25(t) ==
    /\ pc[t] = "exit25"
    /\ lock' = ExitWith(lock)
    /\ pc' = [pc EXCEPT ![t] = "new29"]
    /\ UNCHANGED <<instance, objs, apps, initCalls, connections, ret,
                   inits, w, self, errorLog, configVars>>

New29(t) ==
    /\ pc[t] = "new29"
    /\ ret' = [ret EXCEPT ![t] = instance]
    /\ pc' = [pc EXCEPT ![t] = "ready"]
    /\ UNCHANGED <<instance, lock, objs, apps, initCalls, connections,
                   inits, w, self, errorLog, configVars>>

(***************************************************************************)
(* firebase_client.py: write_state                                         *)
(***************************************************************************)
max_retries == 3

Collections == {<<"s", "t", "a", "t", "e">>, <<"m">>}

\* client_ready records whether _initialize had completed on the client when
\* the call began.
NoWrite == [coll |-> <<>>, attempt |-> 0, outcomes |-> <<>>, passed |-> <<>>,
            warnings |-> <<>>, errors |-> 0, sleeps |-> <<>>, result |-> "none",
            client_ready |-> FALSE]

BareCollection(prefix, collection_name) == collection_name
GetCollection(prefix, collection_name) == prefix \o collection_name

IsPastLastAttempt(attempt) == attempt = max_retries
IsLastAttempt(attempt) == attempt = max_retries - 1

BackoffNext(attempt) == 2 ^ (attempt + 1)
Backoff(attempt) == 2 ^ attempt

\* a caller holding the reference calls write_state(collection, ...)
WriteState(t) ==
    /\ pc[t] = "ready"
    /\ \E c \in Collections :
         w' = [w EXCEPT ![t] = [NoWrite EXCEPT
                  !.coll = c, !.client_ready = objs[ret[t]].initialized]]
    /\ pc' = [pc EXCEPT ![t] = "ws63"]
    /\ UNCHANGED <<instance, lock, objs, apps, initCalls, connections, ret,
                   inits, self, errorLog, configVars>>

\* The try body, lines 63-74.  self.db or self.collection_prefix missing is
\* an AttributeError raised before anything reaches the store ("attr");
\* otherwise the name is handed to db.collection and doc_ref.set, with or
\* without merge=True, succeeds ("ok") or throws ("fail").
Ws63(t) ==
    /\ pc[t] = "ws63"
    /\ LET o == objs[ret[t]] IN
       IF ~o.db \/ ~o.has_prefix
       THEN /\ w' = [w EXCEPT ![t].outcomes = Append(@, "attr")]
            /\ pc' = [pc EXCEPT ![t] = "ws77"]
       ELSE \E merge \in BOOLEAN, throws \in BOOLEAN :
            /\ w' = [w EXCEPT
                 ![t].passed = Append(@, GetCollection(o.collection_prefix, w[t].coll)),
                 ![t].outcomes = Append(@, IF throws THEN "fail" ELSE "ok"),
                 ![t].result = IF throws THEN @ ELSE "true"]
            /\ pc' = [pc EXCEPT ![t] = IF throws THEN "ws77" ELSE "ready"]
    /\ UNCHANGED <<instance, lock, objs, apps, initCalls, connections, ret,
                   inits, self, errorLog, configVars>>

\* The except body up to the return, lines 76-80.
Ws77(t) ==
    /\ pc[t] = "ws77"
    /\ IF IsLastAttempt(w[t].attempt)
       THEN /\ w' = [w EXCEPT ![t].warnings = Append(@, w[t].attempt + 1),
                              ![t].errors = @ + 1,
                              ![t].result = "false"]
            /\ pc' = [pc EXCEPT ![t] = "ready"]
       ELSE /\ w' = [w EXCEPT ![t].warnings = Append(@, w[t].attempt + 1)]
            /\ pc' = [pc EXCEPT ![t] = "ws81"]
    /\ UNCHANGED <<instance, lock, objs, apps, initCalls, connections, ret,
                   inits, self, errorLog, configVars>>

\* time.sleep(2 ** attempt), then the next value of range(max_retries); when
\* the range is exhausted the function ends and returns None.
Ws81(t) ==
    /\ pc[t] = "ws81"
    /\ IF w[t].attempt + 1 < max_retries
       THEN /\ w' = [w EXCEPT ![t].sleeps = Append(@, Backoff(w[t].attempt)),
                              ![t].attempt = @ + 1]
            /\ pc' = [pc EXCEPT ![t] = "ws63"]
       ELSE /\ w' = [w EXCEPT ![t].sleeps = Append(@, Backoff(w[t].attempt)),
                              ![t].result = "None"]
            /\ pc' = [pc EXCEPT ![t] = "ready"]
    /\ UNCHANGED <<instance, lock, objs, apps, initCalls, connections, ret,
                   inits, self, errorLog, configVars>>

(***************************************************************************)
(* Specifications                                                          *)
(***************************************************************************)
AllClasses(e) ==
    Merge(Merge(Merge(NoClasses, FirebaseConfig(e)), TradingConfig(e)), RLConfig(e))

ClientInit ==
    /\ instance = 0
    /\ lock = 0
    /\ objs = <<>>
    /\ apps \in BOOLEAN
    /\ initCalls = 0
    /\ connections = 0
    /\ pc = [t \in Threads |-> "new24"]
    /\ ret = [t \in Threads |-> 0]
    /\ inits = [t \in Threads |-> 0]
    /\ w = [t \in Threads |-> NoWrite]
    /\ self = [t \in Threads |-> 0]
    /\ errorLog = [t \in Threads |-> 0]

\* The client runs in a process that has imported config.py with its numeric
\* settings at their defaults and some collection prefix.
ClientEnvs ==
    {[DefaultEnv EXCEPT !["FIREBASE_COLLECTION_PREFIX"] = v] :
        v \in {Unset, SetTo(<<>>)}}

InitClient ==
    /\ ClientInit
    /\ env \in ClientEnvs
    /\ pathExists = TRUE
    /\ cfgpc = "ready"
    /\ cls = AllClasses(env)
    /\ validation = NoValidation
    /\ cfgLog = <<>>

NextClient ==
    \E t \in Threads :
        \/ New24(t) \/ New25(t) \/ New26(t) \/ New27(t) \/ New28(t)
        \/ Init34(t) \/ Init35(t) \/ Init36(t) \/ Init40(t) \/ Init41(t)
        \/ Init42(t) \/ Init44(t) \/ Exit25(t) \/ New29(t)
        \/ WriteState(t) \/ Ws63(t) \/ Ws77(t) \/ Ws81(t)

SpecClient == InitClient /\ [][NextClient]_vars

\* config.py is imported and validated; no client is constructed.
InitConfig ==
    /\ ClientInit
    /\ apps = FALSE
    /\ env \in ConfigEnvs
    /\ pathExists \in BOOLEAN
    /\ cfgpc = "import13"
    /\ cls = NoClasses
    /\ validation = NoValidation
    /\ cfgLog = <<>>

NextConfig ==
    \/ ImportFirebaseConfig
    \/ ImportTradingConfig
    \/ ImportRLConfig
    \/ Construct
    \/ ValidateAll

SpecConfig == InitConfig /\ [][NextConfig]_vars

(***************************************************************************)
(* Properties of the singleton constructor                                 *)
(***************************************************************************)
InConstructorLock == {"new26", "new27", "new28", "init34", "init35", "init36",
                      "init40", "init41", "init42", "init44", "exit25"}
InWriteState == {"ws63", "ws77", "ws81"}
ConstructorOver == {"ready", "raised"} \cup InWriteState

\* C1: however the constructor calls of the threads interleave, _initialize
\* is called once (never twice, and once by the time every call is over), at
\* most one object and one connection exist, and every call that returns a
\* reference returns the same one, the object held in _instance.
C1_OneInstance ==
    /\ initCalls <= 1
    /\ Len(objs) <= 1
    /\ connections <= 1
    /\ (\A t \in Threads : pc[t] \in ConstructorOver)
          => (initCalls = 1 /\ Len(objs) = 1)
    /\ \A t \in Threads : ret[t] # 0 => ret[t] = instance
    /\ \A t, u \in Threads : (ret[t] # 0 /\ ret[u] # 0) => ret[t] = ret[u]
    /\ \A t \in Threads : (pc[t] \in ConstructorOver /\ pc[t] # "raised") => ret[t] # 0

\* A thread found the instance at the second check, under the lock, after
\* another thread's call created it and returned it.
C1_Witness ==
    \E t, u \in Threads :
        /\ t # u
        /\ pc[t] = "exit25" /\ inits[t] = 0
        /\ ret[u] # 0 /\ inits[u] = 1
        /\ initCalls = 1

\* C5: a constructor call whose _initialize threw ends by raising: it hands
\* no reference to its caller, it has logged the error, it no longer holds the
\* lock, and it called _initialize exactly once.
C5_InitFailureRaisesOnce ==
    \A t \in Threads :
        /\ pc[t] \in {"init44", "raised"} => (inits[t] = 1 /\ ret[t] = 0)
        /\ errorLog[t] > 0 => pc[t] = "raised"
        /\ pc[t] = "raised" => (errorLog[t] = 1 /\ lock # t)

C5_Witness == \E t \in Threads : pc[t] = "raised" /\ inits[t] = 1

\* C6: the lock is held only inside the with block of the constructor; a
\* thread in write_state, sleeping or not, or between calls, never holds it.
C6_LockOnlyInConstructor ==
    /\ lock # 0 => pc[lock] \in InConstructorLock
    /\ \A t \in Threads : pc[t] \in InWriteState \cup {"ready"} => lock # t

\* a thread sleeps in write_state while another thread holds the lock
C6_Witness ==
    \E t, u \in Threads : t # u /\ pc[t] = "ws81" /\ lock = u

\* C10: a reference returned by the constructor designates an object on which
\* _initialize has completed: db and collection_prefix are set.
C10_ReturnedInitialized ==
    \A t \in Threads :
        ret[t] # 0 => (/\ objs[ret[t]].initialized
                       /\ objs[ret[t]].db
                       /\ objs[ret[t]].has_prefix)

(***************************************************************************)
(* Properties of write_state                                               *)
(***************************************************************************)
\* the attempts recorded in outcomes that failed, and those that got as far
\* as the store
Failed(o) == {i \in 1..Len(o) : o[i] # "ok"}
ReachedStore(o) == {i \in 1..Len(o) : o[i] # "attr"}

\* C2: a call whose first successful attempt is attempt k returns True right
\* after it: k attempts were made, none follows the success, and the sleeps
\* between the attempts are 1, then 2.  Each attempt makes one call of the
\* store, except an attempt that stops at a missing attribute of the client.
C2_ReturnsOnFirstSuccess ==
    \A t \in Threads :
        LET r == w[t]
            k == Len(r.outcomes)
        IN  /\ (\E i \in 1..k : r.outcomes[i] = "ok")
                 => (r.result = "true" /\ pc[t] = "ready")
            /\ r.result = "true" =>
                 /\ k \in 1..3
                 /\ r.outcomes[k] = "ok"
                 /\ Failed(r.outcomes) = 1..(k - 1)
                 /\ r.attempt = k - 1
                 /\ r.sleeps = SubSeq(<<1, 2>>, 1, k - 1)
            /\ Len(r.passed) = Cardinality(ReachedStore(r.outcomes))
            /\ r.client_ready => ReachedStore(r.outcomes) = 1..k

C2_Witness ==
    \E t \in Threads :
        /\ w[t].result = "true"
        /\ w[t].outcomes = <<"fail", "fail", "ok">>
        /\ w[t].sleeps = <<1, 2>>
        /\ w[t].client_ready
        /\ Len(w[t].passed) = 3

\* C3: a call whose 3 attempts all fail returns False and nothing else: it
\* made 3 attempts, logged a warning for each and one error, and slept after
\* the first two failures only.
C3_AllAttemptsFail ==
    \A t \in Threads :
        LET r == w[t] IN
        /\ Len(r.outcomes) <= 3
        /\ r.result \in {"none", "true", "false"}
        /\ (Failed(r.outcomes) = 1..3 /\ pc[t] # "ws77") => r.result = "false"
        /\ r.result = "false" =>
             /\ pc[t] = "ready"
             /\ Failed(r.outcomes) = 1..3
             /\ r.warnings = <<1, 2, 3>>
             /\ r.errors = 1
             /\ r.sleeps = <<1, 2>>
        /\ r.result # "false" => r.errors = 0

C3_Witness ==
    \E t \in Threads :
        w[t].result = "false" /\ Len(w[t].passed) = 3 /\ w[t].errors = 1

\* C4 as stated: on every attempt the name handed to the store is the prefix
\* followed by the logical name, and it is never the bare logical name.
C4_NeverBareName ==
    \A t \in Threads : \A i \in 1..Len(w[t].passed) :
        /\ w[t].passed[i] = cls.collection_prefix \o w[t].coll
        /\ w[t].passed[i] # w[t].coll

\* C4 amended: on every attempt the name handed to the store is the configured
\* prefix followed by the logical name; it differs from the bare logical name
\* whenever the configured prefix is not empty.
C4_PrefixedName ==
    \A t \in Threads : \A i \in 1..Len(w[t].passed) :
        /\ w[t].passed[i] = cls.collection_prefix \o w[t].coll
        /\ cls.collection_prefix # <<>> => w[t].passed[i] # w[t].coll

\* a first attempt and a retry both reached the store, under a non-empty prefix
C4_Witness ==
    \E t \in Threads :
        /\ Len(w[t].passed) >= 2
        /\ cls.collection_prefix # <<>>

(***************************************************************************)
(* Properties of validate_all and of importing config.py                   *)
(***************************************************************************)
\* The constraints on the settings, as numbers: NaN satisfies none.
Positive(x) == ~x.nan /\ x.num > 0
InOpenClosedUnit(x) == ~x.nan /\ 0 < x.num /\ x.num <= One
InClosedUnit(x) == ~x.nan /\ 0 <= x.num /\ x.num <= One

\* C7: validate_all's "trading" entry is true exactly when
\* max_position_size > 0 and 0 < risk_per_trade <= 1, and its "rl" entry
\* exactly when 0 < learning_rate <= 1 and 0 <= exploration_rate <= 1.
C7_ValidateAllExact ==
    cfgpc = "validated" =>
        /\ validation.trading = (/\ Positive(cls.max_position_size)
                                 /\ InOpenClosedUnit(cls.risk_per_trade))
        /\ validation.rl = (/\ InOpenClosedUnit(cls.learning_rate)
                            /\ InClosedUnit(cls.exploration_rate))

GroupFields ==
    [firebase |-> {"FIREBASE_PROJECT_ID", "FIREBASE_CREDENTIALS"},
     trading  |-> {"MAX_POSITION_SIZE", "RISK_PER_TRADE"},
     rl       |-> {"RL_LEARNING_RATE", "RL_EXPLORATION_RATE"}]

InvalidFields ==
    (IF cls.project_id = <<>> THEN {"FIREBASE_PROJECT_ID"} ELSE {})
    \cup (IF ~pathExists THEN {"FIREBASE_CREDENTIALS"} ELSE {})
    \cup (IF ~Positive(cls.max_position_size) THEN {"MAX_POSITION_SIZE"} ELSE {})
    \cup (IF ~InOpenClosedUnit(cls.risk_per_trade) THEN {"RISK_PER_TRADE"} ELSE {})
    \cup (IF ~InOpenClosedUnit(cls.learning_rate) THEN {"RL_LEARNING_RATE"} ELSE {})
    \cup (IF ~InClosedUnit(cls.exploration_rate) THEN {"RL_EXPLORATION_RATE"} ELSE {})

LoggedFields == {cfgLog[i] : i \in 1..Len(cfgLog)}

C9_NeverRaises == cfgpc # "raised"

====
